---- MODULE Spec2Model ----
(***************************************************************************)
(* State-machine model of the NBA game predictor backend:                  *)
(*   main.py            the HTTP handlers and the three process globals    *)
(*                      (GET /results, /players, /players/{id} and         *)
(*                      /games/{id}/boxscore are left out)                 *)
(*   services/ball_api  the upstream fetch functions and the CDN helpers   *)
(*   model/train_model  the training script that writes the model bundle   *)
(*                                                                         *)
(* Python values are modelled as follows.  A dict is a function from its   *)
(* keys (a record).  A list is a sequence.  An Optional value is a         *)
(* sequence of length at most one: None is <<>>, a value v is <<v>>.  None *)
(* stored in a string-typed dict field is the string "None", in a number-  *)
(* typed one it is 0 (falsy like None).  A URL built                       *)
(* by an f-string is the tuple of its parts, the empty string is <<>>.     *)
(* A probability is an integer number of 1/10000.                          *)
(***************************************************************************)
EXTENDS Integers, Sequences, FiniteSets, Bags, TLC

VARIABLES
    phase,          \* "boot" before main.py's module body ran, then "serving" or "crashed"
    pickle_file,    \* Optional: the dict pickled at MODEL_PATH
    games_file,     \* Optional: the list stored in data/games.json
    model_bundle,   \* main.py global (Optional dict)
    fallback_games, \* main.py global (list)
    cached_games,   \* main.py global (list)
    pending,        \* bag of handler coroutines suspended in an upstream await
    resp,           \* the response sent by the last step, NoResp if it sent none
    ft_call,        \* arguments of a direct call of get_team_features
    ft_ret,         \* Optional: <<r>> once that call returned r
    env             \* os.getenv at import: whether BALL_API_KEY / SEATGEEK_CLIENT_ID are set

vars == <<phase, pickle_file, games_file, model_bundle, fallback_games,
          cached_games, pending, resp, ft_call, ft_ret, env>>

(***************************************************************************)
(* Bounds                                                                  *)
(***************************************************************************)
MaxSuspended == 1   \* handlers suspended in an await at the same time (Spec)
MaxInFlight == 2    \* the same, where the cache writers are interleaved (SpecConcurrent)
MaxList == 2        \* games in one upstream list reply

None == <<>>
Some(v) == <<v>>

(***************************************************************************)
(* dict helpers                                                            *)
(***************************************************************************)
\* d.get(k, default)
Get(d, k, default) == IF k \in DOMAIN d THEN d[k] ELSE default

\* d.get(k) as an Optional
GetOpt(d, k) == IF k \in DOMAIN d THEN Some(d[k]) ELSE None

\* next((g for g in games if g["id"] == game_id), None)
RECURSIVE FirstWithId(_, _)
FirstWithId(games, game_id) ==
    IF games = <<>> THEN None
    ELSE IF Head(games)["id"] = game_id THEN Some(Head(games))
    ELSE FirstWithId(Tail(games), game_id)

\* truthiness of an Optional dict: None and {} are falsy
Truthy(o) == o # <<>> /\ DOMAIN o[1] # {}

(***************************************************************************)
(* services/ball_api.py: static tables and CDN helpers                     *)
(***************************************************************************)
TEAM_NBA_IDS ==
    [ATL |-> 1610612737, BOS |-> 1610612738, BKN |-> 1610612751, CHA |-> 1610612766,
     CHI |-> 1610612741, CLE |-> 1610612739, DAL |-> 1610612742, DEN |-> 1610612743,
     DET |-> 1610612765, GSW |-> 1610612744, HOU |-> 1610612745, IND |-> 1610612754,
     LAC |-> 1610612746, LAL |-> 1610612747, MEM |-> 1610612763, MIA |-> 1610612748,
     MIL |-> 1610612749, MIN |-> 1610612750, NOP |-> 1610612740, NYK |-> 1610612752,
     OKC |-> 1610612760, ORL |-> 1610612753, PHI |-> 1610612755, PHX |-> 1610612756,
     POR |-> 1610612757, SAC |-> 1610612758, SAS |-> 1610612759, TOR |-> 1610612761,
     UTA |-> 1610612762, WAS |-> 1610612764]

BALLDONTLIE_TEAM_IDS ==
    [ATL |-> 1, BOS |-> 2, BKN |-> 3, CHA |-> 4, CHI |-> 5,
     CLE |-> 6, DAL |-> 7, DEN |-> 8, DET |-> 9, GSW |-> 10,
     HOU |-> 11, IND |-> 12, LAC |-> 13, LAL |-> 14, MEM |-> 15,
     MIA |-> 16, MIL |-> 17, MIN |-> 18, NOP |-> 19, NYK |-> 20,
     OKC |-> 21, ORL |-> 22, PHI |-> 23, PHX |-> 24, POR |-> 25,
     SAC |-> 26, SAS |-> 27, TOR |-> 28, UTA |-> 29, WAS |-> 30]

TEAM_FULL_NAMES ==
    [ATL |-> "Atlanta Hawks", BOS |-> "Boston Celtics", BKN |-> "Brooklyn Nets",
     CHA |-> "Charlotte Hornets", CHI |-> "Chicago Bulls", CLE |-> "Cleveland Cavaliers",
     DAL |-> "Dallas Mavericks", DEN |-> "Denver Nuggets", DET |-> "Detroit Pistons",
     GSW |-> "Golden State Warriors", HOU |-> "Houston Rockets", IND |-> "Indiana Pacers",
     LAC |-> "Los Angeles Clippers", LAL |-> "Los Angeles Lakers", MEM |-> "Memphis Grizzlies",
     MIA |-> "Miami Heat", MIL |-> "Milwaukee Bucks", MIN |-> "Minnesota Timberwolves",
     NOP |-> "New Orleans Pelicans", NYK |-> "New York Knicks", OKC |-> "Oklahoma City Thunder",
     ORL |-> "Orlando Magic", PHI |-> "Philadelphia 76ers", PHX |-> "Phoenix Suns",
     POR |-> "Portland Trail Blazers", SAC |-> "Sacramento Kings", SAS |-> "San Antonio Spurs",
     TOR |-> "Toronto Raptors", UTA |-> "Utah Jazz", WAS |-> "Washington Wizards"]

\* str.upper() on the abbreviations a request can carry
Upper(s) ==
    CASE s = "lal" -> "LAL"
      [] s = "bos" -> "BOS"
      [] s = "Den" -> "DEN"
      [] s = "xyz" -> "XYZ"
      [] OTHER -> s

\* the table looked up with the abbreviation as it was given
get_team_logo_url_AsGiven(team_abbr, size) ==
    LET nba_id == GetOpt(TEAM_NBA_IDS, team_abbr)
    IN  IF nba_id # None /\ nba_id[1] # 0
        THEN <<"https://cdn.nba.com/logos/nba/", nba_id[1], "/primary/", size, "/logo.svg">>
        ELSE <<>>

\* get_team_logo_url(team_abbr, size)
get_team_logo_url(team_abbr, size) ==
    LET nba_id == GetOpt(TEAM_NBA_IDS, Upper(team_abbr))
    IN  IF nba_id # None /\ nba_id[1] # 0
        THEN <<"https://cdn.nba.com/logos/nba/", nba_id[1], "/primary/", size, "/logo.svg">>
        ELSE <<>>

\* get_team_full_name(team_abbr)
get_team_full_name(team_abbr) == Get(TEAM_FULL_NAMES, Upper(team_abbr), team_abbr)

\* get_balldontlie_team_id(team_abbr): Optional[int]
get_balldontlie_team_id(team_abbr) == GetOpt(BALLDONTLIE_TEAM_IDS, Upper(team_abbr))

(***************************************************************************)
(* The upstream BallDontLie API: the JSON it can answer with               *)
(***************************************************************************)
EmptyDict == [k \in {} |-> 0]

RawTeam(id, abbr, city, conference, division, name) ==
    [id |-> id, abbreviation |-> abbr, city |-> city, conference |-> conference,
     division |-> division, name |-> name, full_name |-> TEAM_FULL_NAMES[abbr]]

RawLAL == RawTeam(14, "LAL", "Los Angeles", "West", "Pacific", "Lakers")
RawBOS == RawTeam(2, "BOS", "Boston", "East", "Atlantic", "Celtics")
RawMIA == RawTeam(16, "MIA", "Miami", "East", "Southeast", "Heat")

\* a date string is the pair of its first ten characters and the rest
RawGame(id, home, visitor, day) ==
    [id |-> id, date |-> <<day, "T00:00:00.000Z">>, season |-> 2025,
     status |-> "7:30 pm ET", period |-> 0, postseason |-> FALSE,
     home_team_score |-> 0, visitor_team_score |-> 0,
     home_team |-> home, visitor_team |-> visitor]

\* the games upstream knows, by id
UpstreamGame ==
    [i \in {1, 2} |-> IF i = 1 THEN RawGame(1, RawLAL, RawBOS, "2025-01-15")
                              ELSE RawGame(2, RawBOS, RawMIA, "2025-01-16")]

\* a record upstream could send that lacks the visitor team
MalformedGame == [id |-> 3, date |-> <<"2025-01-17", "T00:00:00.000Z">>, home_team |-> RawLAL]

RawGames == {UpstreamGame[i] : i \in DOMAIN UpstreamGame}

\* sequences without repetition over S, of length at most n
RECURSIVE DistinctSeqs(_, _)
DistinctSeqs(S, n) ==
    IF n = 0 THEN {<<>>}
    ELSE LET shorter == DistinctSeqs(S, n - 1)
             longer == UNION {{Append(q, x) : x \in {y \in S : \A i \in 1..Len(q) : q[i] # y}} :
                              q \in shorter}
         IN  shorter \cup longer

\* replies to GET /games: a transport or HTTP error, or a JSON body
ListReplies ==
    {[ok |-> FALSE, body |-> EmptyDict], [ok |-> TRUE, body |-> EmptyDict]}
    \cup {[ok |-> TRUE, body |-> [data |-> l]] : l \in DistinctSeqs(RawGames, MaxList)}
    \cup {[ok |-> TRUE, body |-> [data |-> <<UpstreamGame[1], MalformedGame>>]]}

\* replies to GET /games/{id}
GameReplies(game_id) ==
    {[ok |-> FALSE, body |-> EmptyDict], [ok |-> TRUE, body |-> EmptyDict],
     [ok |-> TRUE, body |-> [data |-> EmptyDict]]}
    \cup (IF game_id \in DOMAIN UpstreamGame
          THEN {[ok |-> TRUE, body |-> [data |-> UpstreamGame[game_id]]]}
          ELSE {})
    \cup (IF game_id = MalformedGame.id
          THEN {[ok |-> TRUE, body |-> [data |-> MalformedGame]]}
          ELSE {})

\* ball_api.py lines 15 and 18: each variable is a non-empty string or ""
Environments == [BALL_API_KEY : BOOLEAN, SEATGEEK_CLIENT_ID : BOOLEAN]

\* get_headers raised ValueError inside the fetch function: no request was sent
NoRequest == [ok |-> FALSE, body |-> EmptyDict, raised |-> "ValueError"]

\* what a fetch function that calls get_headers() can see of its request
Outcomes(e, replies) == IF e.BALL_API_KEY THEN replies ELSE {NoRequest}

(***************************************************************************)
(* services/ball_api.py: fetch functions, as functions of the reply        *)
(***************************************************************************)
\* s[:10] of a date string
Slice10(d) == d[1]

\* the keys the formatting code subscripts: a missing one raises KeyError
WellFormed(game) ==
    /\ {"id", "home_team", "visitor_team"} \subseteq DOMAIN game
    /\ "abbreviation" \in DOMAIN game["home_team"]
    /\ "abbreviation" \in DOMAIN game["visitor_team"]

WellFormedListed(game) ==
    /\ WellFormed(game)
    /\ "date" \in DOMAIN game
    /\ "full_name" \in DOMAIN game["home_team"]
    /\ "full_name" \in DOMAIN game["visitor_team"]

\* the dict appended to formatted_games for one upstream game
FormatListed(game) ==
    LET home_abbr == game["home_team"]["abbreviation"]
        away_abbr == game["visitor_team"]["abbreviation"]
    IN  [id |-> game["id"],
         home_team |-> home_abbr,
         home_team_name |-> game["home_team"]["full_name"],
         home_team_logo |-> get_team_logo_url(home_abbr, "L"),
         home_team_logo_small |-> get_team_logo_url(home_abbr, "S"),
         away_team |-> away_abbr,
         away_team_name |-> game["visitor_team"]["full_name"],
         away_team_logo |-> get_team_logo_url(away_abbr, "L"),
         away_team_logo_small |-> get_team_logo_url(away_abbr, "S"),
         game_date |-> Slice10(game["date"]),
         status |-> Get(game, "status", "scheduled"),
         home_score |-> Get(game, "home_team_score", 0),
         away_score |-> Get(game, "visitor_team_score", 0),
         season |-> Get(game, "season", 0)]

RECURSIVE FormatAll(_)
FormatAll(games) ==
    IF games = <<>> THEN <<>>
    ELSE <<FormatListed(Head(games))>> \o FormatAll(Tail(games))

\* fetch_upcoming_games leaving out the records it cannot format
fetch_upcoming_games_SkipMalformed(reply) ==
    IF ~reply.ok THEN <<>>
    ELSE LET games == Get(reply.body, "data", <<>>)
             kept == SelectSeq(games, WellFormedListed)
         IN  FormatAll(kept)

\* fetch_upcoming_games: any exception inside the try yields []
fetch_upcoming_games(reply) ==
    IF ~reply.ok THEN <<>>
    ELSE LET games == Get(reply.body, "data", <<>>)
         IN  IF \E i \in 1..Len(games) : ~WellFormedListed(games[i])
             THEN <<>>
             ELSE FormatAll(games)

\* fetch_game_by_id: Optional[dict]
fetch_game_by_id(reply) ==
    IF ~reply.ok THEN None
    ELSE LET game == Get(reply.body, "data", EmptyDict)
         IN  IF DOMAIN game = {} THEN None
             ELSE IF ~WellFormed(game) THEN None
             ELSE LET home_team == game["home_team"]
                      away_team == game["visitor_team"]
                      home_abbr == home_team["abbreviation"]
                      away_abbr == away_team["abbreviation"]
                  IN Some(
                     [id |-> game["id"],
                      home_team |-> home_abbr,
                      home_team_name |-> Get(home_team, "full_name", ""),
                      home_team_id |-> Get(home_team, "id", 0),
                      home_team_city |-> Get(home_team, "city", ""),
                      home_team_conference |-> Get(home_team, "conference", ""),
                      home_team_division |-> Get(home_team, "division", ""),
                      home_team_logo |-> get_team_logo_url(home_abbr, "L"),
                      home_team_logo_small |-> get_team_logo_url(home_abbr, "S"),
                      away_team |-> away_abbr,
                      away_team_name |-> Get(away_team, "full_name", ""),
                      away_team_id |-> Get(away_team, "id", 0),
                      away_team_city |-> Get(away_team, "city", ""),
                      away_team_conference |-> Get(away_team, "conference", ""),
                      away_team_division |-> Get(away_team, "division", ""),
                      away_team_logo |-> get_team_logo_url(away_abbr, "L"),
                      away_team_logo_small |-> get_team_logo_url(away_abbr, "S"),
                      game_date |-> IF "date" \in DOMAIN game THEN Slice10(game["date"]) ELSE "None",
                      game_time |-> Get(game, "time", "None"),
                      status |-> Get(game, "status", "scheduled"),
                      period |-> Get(game, "period", 0),
                      time_remaining |-> Get(game, "time", "None"),
                      postseason |-> Get(game, "postseason", FALSE),
                      season |-> Get(game, "season", 0),
                      home_score |-> Get(game, "home_team_score", 0),
                      away_score |-> Get(game, "visitor_team_score", 0),
                      tickets |-> [available |-> FALSE,
                                   note |-> "Ticket data requires Ticketmaster or SeatGeek API integration",
                                   ticketmaster_search_url |->
                                       <<"https://www.ticketmaster.com/search?q=", Get(home_team, "full_name", "")>>,
                                   seatgeek_search_url |->
                                       <<"https://seatgeek.com/search?search=", home_abbr>>]])

\* a player as GET /players lists it
RawPlayer ==
    [id |-> 237, first_name |-> "LeBron", last_name |-> "James", position |-> "F",
     jersey_number |-> "23", height |-> "6-9", weight |-> "250"]

\* a player record upstream could send that lacks the last name
MalformedPlayer == [id |-> 238, first_name |-> "Bronny"]

\* replies to GET /players?team_ids[]=...
RosterReplies ==
    {[ok |-> FALSE, body |-> EmptyDict],
     [ok |-> TRUE, body |-> [data |-> <<RawPlayer>>]],
     [ok |-> TRUE, body |-> [data |-> <<RawPlayer, MalformedPlayer>>]]}

\* replies to GET /games?team_ids[]=...
TeamGamesReplies ==
    {[ok |-> FALSE, body |-> EmptyDict],
     [ok |-> TRUE, body |-> [data |-> <<UpstreamGame[2]>>]]}

\* get_player_headshot_url(player_id, size)
get_player_headshot_url(player_id, size) ==
    <<"https://cdn.nba.com/headshots/nba/latest/", size, "/", player_id, ".png">>

\* the keys fetch_team_roster subscripts
WellFormedPlayer(player) == {"id", "first_name", "last_name"} \subseteq DOMAIN player

FormatPlayer(player) ==
    [id |-> player["id"],
     first_name |-> player["first_name"],
     last_name |-> player["last_name"],
     full_name |-> <<player["first_name"], " ", player["last_name"]>>,
     position |-> Get(player, "position", ""),
     jersey_number |-> Get(player, "jersey_number", ""),
     height |-> Get(player, "height", ""),
     weight |-> Get(player, "weight", ""),
     headshot_url |-> get_player_headshot_url(player["id"], "260x190")]

RECURSIVE FormatPlayers(_)
FormatPlayers(players) ==
    IF players = <<>> THEN <<>>
    ELSE <<FormatPlayer(Head(players))>> \o FormatPlayers(Tail(players))

\* fetch_team_roster runs into its "except Exception"
RosterRaises(reply) ==
    \/ ~reply.ok
    \/ LET players == Get(reply.body, "data", <<>>)
       IN  \E i \in 1..Len(players) : ~WellFormedPlayer(players[i])

\* fetch_team_roster: any exception inside the try yields []
fetch_team_roster(reply) ==
    IF RosterRaises(reply) THEN <<>>
    ELSE FormatPlayers(Get(reply.body, "data", <<>>))

\* the dict fetch_team_upcoming_games appends for one upstream game
FormatTeamGame(game) ==
    LET home_abbr == game["home_team"]["abbreviation"]
        away_abbr == game["visitor_team"]["abbreviation"]
    IN  [id |-> game["id"],
         home_team |-> home_abbr,
         home_team_name |-> game["home_team"]["full_name"],
         home_team_logo |-> get_team_logo_url(home_abbr, "L"),
         away_team |-> away_abbr,
         away_team_name |-> game["visitor_team"]["full_name"],
         away_team_logo |-> get_team_logo_url(away_abbr, "L"),
         game_date |-> Slice10(game["date"]),
         status |-> Get(game, "status", "scheduled")]

RECURSIVE FormatTeamGames(_)
FormatTeamGames(games) ==
    IF games = <<>> THEN <<>>
    ELSE <<FormatTeamGame(Head(games))>> \o FormatTeamGames(Tail(games))

\* fetch_team_upcoming_games runs into its "except Exception"
TeamGamesRaises(reply) ==
    \/ ~reply.ok
    \/ LET games == Get(reply.body, "data", <<>>)
       IN  \E i \in 1..Len(games) : ~WellFormedListed(games[i])

\* fetch_team_upcoming_games: any exception inside the try yields []
fetch_team_upcoming_games(reply) ==
    IF TeamGamesRaises(reply) THEN <<>>
    ELSE FormatTeamGames(Get(reply.body, "data", <<>>))

\* an upstream game with the status and the scores of a game under way or over
RawPlayed(id, home, visitor, day, status, home_score, visitor_score) ==
    [RawGame(id, home, visitor, day) EXCEPT !["status"] = status,
                                            !["home_team_score"] = home_score,
                                            !["visitor_team_score"] = visitor_score]

\* what upstream can list for the past days: a finished game, one under way
\* and one that was not played
PastRawGames ==
    {RawPlayed(11, RawLAL, RawBOS, "2025-01-10", "Final", 110, 102),
     RawPlayed(12, RawBOS, RawMIA, "2025-01-12", "3rd Qtr", 55, 60),
     RawPlayed(13, RawMIA, RawLAL, "2025-01-11", "7:30 pm ET", 0, 0)}

\* replies to GET /games for the past days
PastReplies ==
    {[ok |-> FALSE, body |-> EmptyDict], [ok |-> TRUE, body |-> EmptyDict]}
    \cup {[ok |-> TRUE, body |-> [data |-> l]] : l \in DistinctSeqs(PastRawGames, MaxList)}
    \cup {[ok |-> TRUE, body |-> [data |-> <<MalformedGame>>]],
          [ok |-> TRUE, body |-> [data |-> <<[MalformedGame EXCEPT !["id"] = 14] @@
                                              [status |-> "Final"]>>]]}

\* the strings the code compares with < (sort, sorted), in str order
StrOrder ==
    <<"2025-01-10", "2025-01-11", "2025-01-12", "2025-01-15", "2025-01-16", "2025-01-17",
      "BOS", "DEN", "LAL", "MIA", "NYK">>

StrRank(str) == CHOOSE i \in 1..Len(StrOrder) : StrOrder[i] = str

\* a < b on str
StrLess(a, b) == StrRank(a) < StrRank(b)

\* list.sort(key=lambda x: x["game_date"], reverse=True): stable, latest first
RECURSIVE SortByDateDesc(_)
SortByDateDesc(games) ==
    IF games = <<>> THEN <<>>
    ELSE LET n == Len(games)
             x == games[n]
             sorted == SortByDateDesc(SubSeq(games, 1, n - 1))
             k == Cardinality({i \in 1..Len(sorted) :
                                  ~StrLess(sorted[i]["game_date"], x["game_date"])})
         IN  SubSeq(sorted, 1, k) \o <<x>> \o SubSeq(sorted, k + 1, Len(sorted))

\* fetch_past_games lines 291-293: the games the loop skips
NotFinished(game) ==
    /\ Get(game, "status", "") \notin {"Final", "final"}
    /\ Get(game, "home_team_score", 0) = 0

\* the dict fetch_past_games appends for one upstream game
FormatPast(game) ==
    LET home_abbr == game["home_team"]["abbreviation"]
        away_abbr == game["visitor_team"]["abbreviation"]
        home_score == Get(game, "home_team_score", 0)
        away_score == Get(game, "visitor_team_score", 0)
        winner == IF home_score > away_score THEN home_abbr ELSE away_abbr
    IN  [id |-> game["id"],
         home_team |-> home_abbr,
         home_team_name |-> game["home_team"]["full_name"],
         home_team_logo |-> get_team_logo_url(home_abbr, "L"),
         home_team_logo_small |-> get_team_logo_url(home_abbr, "S"),
         away_team |-> away_abbr,
         away_team_name |-> game["visitor_team"]["full_name"],
         away_team_logo |-> get_team_logo_url(away_abbr, "L"),
         away_team_logo_small |-> get_team_logo_url(away_abbr, "S"),
         game_date |-> Slice10(game["date"]),
         status |-> "Final",
         home_score |-> home_score,
         away_score |-> away_score,
         winner |-> winner,
         winner_logo |-> get_team_logo_url(winner, "L"),
         season |-> Get(game, "season", 0)]

RECURSIVE FormatPastAll(_)
FormatPastAll(games) ==
    IF games = <<>> THEN <<>>
    ELSE IF NotFinished(Head(games)) THEN FormatPastAll(Tail(games))
    ELSE <<FormatPast(Head(games))>> \o FormatPastAll(Tail(games))

\* fetch_past_games: any exception inside the try yields []
fetch_past_games(reply) ==
    IF ~reply.ok THEN <<>>
    ELSE LET games == Get(reply.body, "data", <<>>)
         IN  IF \E i \in 1..Len(games) : ~NotFinished(games[i]) /\ ~WellFormedListed(games[i])
             THEN <<>>
             ELSE SortByDateDesc(FormatPastAll(games))

\* a team record upstream could send that lacks the city
MalformedTeam == [id |-> 16, abbreviation |-> "MIA", name |-> "Heat", full_name |-> "Miami Heat"]

\* replies to GET /teams
TeamsReplies ==
    {[ok |-> FALSE, body |-> EmptyDict],
     [ok |-> TRUE, body |-> EmptyDict],
     [ok |-> TRUE, body |-> [data |-> <<RawLAL, RawBOS>>]],
     [ok |-> TRUE, body |-> [data |-> <<RawLAL, MalformedTeam>>]]}

\* the keys fetch_teams subscripts
WellFormedTeam(team) ==
    {"abbreviation", "id", "city", "name", "full_name", "conference", "division"}
        \subseteq DOMAIN team

FormatTeam(team) ==
    LET abbr == team["abbreviation"]
    IN  [id |-> team["id"],
         abbreviation |-> abbr,
         city |-> team["city"],
         name |-> team["name"],
         full_name |-> team["full_name"],
         conference |-> team["conference"],
         division |-> team["division"],
         logo_url |-> get_team_logo_url(abbr, "L"),
         logo_url_small |-> get_team_logo_url(abbr, "S")]

RECURSIVE FormatTeams(_)
FormatTeams(teams) ==
    IF teams = <<>> THEN <<>>
    ELSE <<FormatTeam(Head(teams))>> \o FormatTeams(Tail(teams))

\* fetch_teams has no try: get_headers, raise_for_status and the subscripts raise
fetch_teams_raises(reply) ==
    \/ ~reply.ok
    \/ LET teams == Get(reply.body, "data", <<>>)
       IN  \E i \in 1..Len(teams) : ~WellFormedTeam(teams[i])

\* fetch_teams, when it returns
fetch_teams(reply) == FormatTeams(Get(reply.body, "data", <<>>))

\* a SeatGeek event
RawEvent ==
    [id |-> 501, url |-> "https://seatgeek.com/e/501", score |-> 7,
     venue |-> [name |-> "Crypto.com Arena", city |-> "Los Angeles", state |-> "CA",
                capacity |-> 19000, address |-> "1111 S Figueroa St"],
     stats |-> [lowest_price |-> 40, average_price |-> 120, highest_price |-> 900,
                listing_count |-> 35]]

\* replies of the SeatGeek API to GET /events
TicketReplies ==
    {[ok |-> FALSE, body |-> EmptyDict],
     [ok |-> TRUE, body |-> EmptyDict],
     [ok |-> TRUE, body |-> [events |-> <<>>]],
     [ok |-> TRUE, body |-> [events |-> <<RawEvent>>]]}

\* the early return guard left out: the request is made without a client id
ClientIdMissing_Never(e) == FALSE

\* "if not SEATGEEK_CLIENT_ID"
ClientIdMissing(e) == ~e.SEATGEEK_CLIENT_ID

\* fetch_ticket_prices lines 83-89
TicketsNotConfigured(home_team) ==
    [available |-> FALSE,
     error |-> "SEATGEEK_CLIENT_ID not configured",
     ticketmaster_url |-> <<"https://www.ticketmaster.com/search?q=", home_team>>,
     seatgeek_url |-> <<"https://seatgeek.com/search?search=", home_team>>]

\* fetch_ticket_prices lines 139-146: the except clause
TicketsError(home_team) ==
    [available |-> FALSE,
     error |-> "str(e)",
     seatgeek_search_url |-> <<"https://seatgeek.com/search?search=", home_team>>]

\* game_date + "T23:59:59" raises TypeError for a game without a date
TicketParamsRaise(game_date) == game_date = "None"

\* fetch_ticket_prices from the reply of the events request on
fetch_ticket_prices_reply(home_team, reply) ==
    IF ~reply.ok THEN TicketsError(home_team)
    ELSE LET events == Get(reply.body, "events", <<>>)
         IN  IF events = <<>>
             THEN [available |-> FALSE,
                   message |-> "No ticket listings found",
                   seatgeek_search_url |-> <<"https://seatgeek.com/search?search=", home_team>>]
             ELSE LET event == events[1]
                      stats == Get(event, "stats", EmptyDict)
                      venue == Get(event, "venue", EmptyDict)
                  IN  [available |-> TRUE,
                       event_id |-> Get(event, "id", 0),
                       event_url |-> Get(event, "url", "None"),
                       venue |-> [name |-> Get(venue, "name", "None"),
                                  city |-> Get(venue, "city", "None"),
                                  state |-> Get(venue, "state", "None"),
                                  capacity |-> Get(venue, "capacity", 0),
                                  address |-> Get(venue, "address", "None")],
                       prices |-> [lowest_price |-> Get(stats, "lowest_price", 0),
                                   average_price |-> Get(stats, "average_price", 0),
                                   highest_price |-> Get(stats, "highest_price", 0),
                                   listing_count |-> Get(stats, "listing_count", 0)],
                       popularity |-> Get(event, "score", 0),
                       buy_url |-> Get(event, "url", "None")]

(***************************************************************************)
(* The files the server reads at startup                                   *)
(***************************************************************************)
\* a column name is the sequence of its parts; "_home" and "_away" are parts
Col(base, suffix) == <<base, suffix>>
Plain(name) == <<name>>

\* "_home" in col
Contains(col, part) == \E i \in 1..Len(col) : col[i] = part

PTS_HOME == Col("pts", "_home")
PTS_AWAY == Col("pts", "_away")
REB_HOME == Col("reb", "_home")
REB_AWAY == Col("reb", "_away")
PACE == Plain("pace")

\* A fitted pipeline is a deterministic function of the feature vector.  It is
\* modelled by the table of the probabilities it outputs (home win, in
\* 1/10000) and picks the entry by the sum of the features.
Pipeline == <<5004, 7000, 4500, 5000, 6996, 3000, 3004, 5500, 4501>>

\* the bundle the notebook pickles: the four keys main.py reads
NotebookBundle ==
    [model |-> Pipeline,
     feature_cols |-> <<PTS_HOME, PTS_AWAY, REB_HOME, REB_AWAY>>,
     team_stats_home |-> [LAL |-> (PTS_HOME :> 112) @@ (REB_HOME :> 44),
                          BOS |-> (PTS_HOME :> 117),
                          DEN |-> (PTS_HOME :> 115) @@ (REB_HOME :> 44)],
     team_stats_away |-> [LAL |-> (PTS_AWAY :> 108) @@ (REB_AWAY :> 38),
                          BOS |-> (PTS_AWAY :> 110) @@ (REB_AWAY :> 34),
                          DEN |-> (PTS_AWAY :> 109),
                          NYK |-> (PTS_AWAY :> 111)]]

\* train_model.py
FEATURE_COLUMNS ==
    <<Col("off_rating", "_home"), Col("off_rating", "_away"),
      Col("def_rating", "_home"), Col("def_rating", "_away"),
      Col("net_rating", "_home"), Col("net_rating", "_away"),
      Col("pace", "_home"), Col("pace", "_away"),
      Plain("home_rest_days"), Plain("away_rest_days"),
      Plain("home_last10_win_pct"), Plain("away_last10_win_pct"),
      Plain("home_starters_out"), Plain("away_starters_out")>>

LABEL_COLUMN == "home_win"

\* the dict save_model pickles
save_model(model) ==
    [model |-> model, feature_columns |-> FEATURE_COLUMNS, label_column |-> LABEL_COLUMN]

\* data/games.json: records of the shape of GameResponse
StaticGames ==
    <<[id |-> 1, home_team |-> "BOS", away_team |-> "LAL",
       game_date |-> "2025-01-15", status |-> "scheduled"]>>

(***************************************************************************)
(* main.py: pure helpers                                                   *)
(***************************************************************************)
\* model_bundle is None
BundleMissing(bundle) == bundle = None

\* the dict a column's value is read from
ChosenData(col, home_data, away_data) ==
    IF Contains(col, "_home") THEN home_data
    ELSE IF Contains(col, "_away") THEN away_data
    ELSE home_data

\* data.get(col, 1)
ColumnValue_DefaultOne(data, col) == Get(data, col, 1)

\* data.get(col, 0)
ColumnValue(data, col) == Get(data, col, 0)

RECURSIVE BuildFeatures(_, _, _)
BuildFeatures(feature_cols, home_data, away_data) ==
    IF feature_cols = <<>> THEN <<>>
    ELSE <<ColumnValue(ChosenData(Head(feature_cols), home_data, away_data), Head(feature_cols))>>
         \o BuildFeatures(Tail(feature_cols), home_data, away_data)

\* get_team_features(home_team, away_team): Optional[list]
get_team_features(bundle, home_team, away_team) ==
    IF BundleMissing(bundle) THEN None
    ELSE LET feature_cols == bundle[1]["feature_cols"]
             home_stats == Get(bundle[1], "team_stats_home", EmptyDict)
             away_stats == Get(bundle[1], "team_stats_away", EmptyDict)
             home_data == GetOpt(home_stats, home_team)
             away_data == GetOpt(away_stats, away_team)
         IN  IF home_data = None \/ away_data = None THEN None
             ELSE Some(BuildFeatures(feature_cols, home_data[1], away_data[1]))

\* _enrich_game_data(game)
_enrich_game_data(game) ==
    [id |-> Get(game, "id", 0),
     home_team |-> Get(game, "home_team", ""),
     home_team_name |-> Get(game, "home_team_name", ""),
     home_team_id |-> Get(game, "home_team_id", 0),
     home_team_city |-> Get(game, "home_team_city", ""),
     home_team_conference |-> Get(game, "home_team_conference", ""),
     home_team_division |-> Get(game, "home_team_division", ""),
     home_team_logo |-> Get(game, "home_team_logo", <<>>),
     home_team_logo_small |-> Get(game, "home_team_logo_small", <<>>),
     away_team |-> Get(game, "away_team", ""),
     away_team_name |-> Get(game, "away_team_name", ""),
     away_team_id |-> Get(game, "away_team_id", 0),
     away_team_city |-> Get(game, "away_team_city", ""),
     away_team_conference |-> Get(game, "away_team_conference", ""),
     away_team_division |-> Get(game, "away_team_division", ""),
     away_team_logo |-> Get(game, "away_team_logo", <<>>),
     away_team_logo_small |-> Get(game, "away_team_logo_small", <<>>),
     game_date |-> Get(game, "game_date", ""),
     game_time |-> Get(game, "game_time", "None"),
     status |-> Get(game, "status", "scheduled"),
     period |-> Get(game, "period", 0),
     time_remaining |-> Get(game, "time_remaining", "None"),
     postseason |-> Get(game, "postseason", FALSE),
     season |-> Get(game, "season", 2025),
     home_score |-> Get(game, "home_score", 0),
     away_score |-> Get(game, "away_score", 0),
     tickets |-> Get(game, "tickets",
                     [available |-> FALSE,
                      note |-> "Ticket data requires API integration",
                      ticketmaster_search_url |->
                          <<"https://www.ticketmaster.com/search?q=", Get(game, "home_team_name", "")>>,
                      seatgeek_search_url |->
                          <<"https://seatgeek.com/search?search=", Get(game, "home_team", "")>>])]

(***************************************************************************)
(* main.py: what each handler answers                                      *)
(***************************************************************************)
NoResp == [kind |-> "none"]

HTTPException(status_code, detail) == [status |-> status_code, body |-> [detail |-> detail]]
Ok(body) == [status |-> 200, body |-> body]

\* get_games_body with the static list tried before the cache
get_games_body_StaticFirst(games, cached, fallback) ==
    IF games # <<>>
    THEN [source |-> "balldontlie_api", count |-> Len(games), games |-> games]
    ELSE IF fallback # <<>>
    THEN [source |-> "static", count |-> Len(fallback), games |-> fallback]
    ELSE [source |-> "cache", count |-> Len(cached), games |-> cached]

\* get_games_body whose last return hands out the cache under the name "static"
get_games_body_StaticIsCache(games, cached, fallback) ==
    IF games # <<>>
    THEN [source |-> "balldontlie_api", count |-> Len(games), games |-> games]
    ELSE IF cached # <<>>
    THEN [source |-> "cache", count |-> Len(cached), games |-> cached]
    ELSE [source |-> "static", count |-> Len(cached), games |-> cached]

\* get_games, after fetch_upcoming_games returned games: the response body
get_games_body(games, cached, fallback) ==
    IF games # <<>>
    THEN [source |-> "balldontlie_api", count |-> Len(games), games |-> games]
    ELSE IF cached # <<>>
    THEN [source |-> "cache", count |-> Len(cached), games |-> cached]
    ELSE [source |-> "static", count |-> Len(fallback), games |-> fallback]

\* the cache assigned whatever was fetched, an empty list included
get_games_cache_Always(games, cached) == games

\* get_games lines 272-274: "if games: cached_games = games"
get_games_cache(games, cached) == IF games # <<>> THEN games ELSE cached

\* get_game_result with the order of predict_game: cache, static, then upstream
get_game_result_UpstreamLast(game, cached, fallback, game_id) ==
    LET c == FirstWithId(cached, game_id)
        f == FirstWithId(fallback, game_id)
    IN  IF Truthy(c) THEN Ok(_enrich_game_data(c[1]))
        ELSE IF Truthy(f) THEN Ok(_enrich_game_data(f[1]))
        ELSE IF Truthy(game) THEN Ok(game[1])
        ELSE HTTPException(404, <<"Game not found">>)

\* get_game returning the stored record as it is
get_game_result_Unenriched(game, cached, fallback, game_id) ==
    IF Truthy(game) THEN Ok(game[1])
    ELSE LET c == FirstWithId(cached, game_id)
             f == FirstWithId(fallback, game_id)
         IN  IF Truthy(c) THEN Ok(c[1])
             ELSE IF Truthy(f) THEN Ok(f[1])
             ELSE HTTPException(404, <<"Game not found">>)

\* get_game, after fetch_game_by_id returned game
get_game_result(game, cached, fallback, game_id) ==
    IF Truthy(game) THEN Ok(game[1])
    ELSE LET c == FirstWithId(cached, game_id)
             f == FirstWithId(fallback, game_id)
         IN  IF Truthy(c) THEN Ok(_enrich_game_data(c[1]))
             ELSE IF Truthy(f) THEN Ok(_enrich_game_data(f[1]))
             ELSE HTTPException(404, <<"Game not found">>)

(***************************************************************************)
(* Startup and the training script                                         *)
(***************************************************************************)
Init ==
    /\ phase = "boot"
    /\ pickle_file \in {None, Some(NotebookBundle)}
    /\ games_file \in {None, Some(StaticGames)}
    /\ model_bundle = None
    /\ fallback_games = <<>>
    /\ cached_games = <<>>
    /\ pending = EmptyBag
    /\ resp = NoResp
    /\ ft_call = [home_team |-> "", away_team |-> ""]
    /\ ft_ret = None
    /\ env \in Environments

\* train_model.main: train, then save_model to MODEL_PATH
train_model_main ==
    /\ phase = "boot"
    /\ pickle_file # Some(save_model(Pipeline))
    /\ pickle_file' = Some(save_model(Pipeline))
    /\ resp' = NoResp
    /\ UNCHANGED <<phase, games_file, model_bundle, fallback_games, cached_games,
                   pending, ft_call, ft_ret, env>>

\* len(model_bundle['feature_cols']) raises KeyError
StartupRaises(file) == file # None /\ "feature_cols" \notin DOMAIN file[1]

\* main.py module body: load the bundle and the static games
Startup ==
    /\ phase = "boot"
    /\ model_bundle' = pickle_file
    /\ IF StartupRaises(pickle_file)
       THEN /\ phase' = "crashed"
            /\ UNCHANGED fallback_games
       ELSE /\ phase' = "serving"
            /\ fallback_games' = IF games_file # None THEN games_file[1] ELSE <<>>
    /\ cached_games' = <<>>
    /\ resp' = NoResp
    /\ UNCHANGED <<pickle_file, games_file, pending, ft_call, ft_ret, env>>

(***************************************************************************)
(* GET /games                                                              *)
(***************************************************************************)
Req(kind, game_id) == [kind |-> kind, game_id |-> game_id]

CanSuspend(limit) == BagCardinality(pending) < limit

Suspended(kind) == {r \in BagToSet(pending) : r.kind = kind}

\* the handler runs up to "await fetch_upcoming_games(...)"
get_games_call(limit) ==
    /\ phase = "serving"
    /\ CanSuspend(limit)
    /\ pending' = pending (+) SetToBag({Req("get_games", 0)})
    /\ resp' = NoResp
    /\ UNCHANGED <<phase, pickle_file, games_file, model_bundle, fallback_games,
                   cached_games, ft_call, ft_ret, env>>

\* upstream answers and the handler runs to its return
get_games_resume ==
    \E r \in Suspended("get_games"), reply \in Outcomes(env, ListReplies) :
        LET games == fetch_upcoming_games(reply)
        IN  /\ pending' = pending (-) SetToBag({r})
            /\ cached_games' = get_games_cache(games, cached_games)
            /\ resp' = [kind |-> "get_games", reply |-> reply, status |-> 200,
                        body |-> get_games_body(games, cached_games, fallback_games)]
            /\ UNCHANGED <<phase, pickle_file, games_file, model_bundle, fallback_games,
                           ft_call, ft_ret, env>>

(***************************************************************************)
(* GET /games/{game_id}                                                    *)
(***************************************************************************)
GameIds == {1, 2}

get_game_call(game_id, limit) ==
    /\ phase = "serving"
    /\ CanSuspend(limit)
    /\ pending' = pending (+) SetToBag({Req("get_game", game_id)})
    /\ resp' = NoResp
    /\ UNCHANGED <<phase, pickle_file, games_file, model_bundle, fallback_games,
                   cached_games, ft_call, ft_ret, env>>

get_game_resume ==
    \E r \in Suspended("get_game") :
        \E reply \in Outcomes(env, GameReplies(r.game_id)) :
            LET game == fetch_game_by_id(reply)
                result == get_game_result(game, cached_games, fallback_games, r.game_id)
            IN  /\ pending' = pending (-) SetToBag({r})
                /\ resp' = [kind |-> "get_game", game_id |-> r.game_id, reply |-> reply,
                            status |-> result.status, body |-> result.body]
                /\ UNCHANGED <<phase, pickle_file, games_file, model_bundle, fallback_games,
                               cached_games, ft_call, ft_ret, env>>

(***************************************************************************)
(* Predictions                                                             *)
(***************************************************************************)
RECURSIVE Sum(_)
Sum(q) == IF q = <<>> THEN 0 ELSE Head(q) + Sum(Tail(q))

\* model.predict_proba([features])[0]: prob[1] is the home win, prob[0] its complement
predict_proba(model, features) ==
    LET p == model[(Sum(features) % Len(model)) + 1]
    IN  [home |-> p, away |-> 10000 - p]

\* round(x, 3), in 1/1000
Round3(p) ==
    LET q == p \div 10
        r == p % 10
    IN  IF r > 5 \/ (r = 5 /\ q % 2 = 1) THEN q + 1 ELSE q

\* home_win_prob >= 0.5: a tie goes to the home team
HomeWins_TieToHome(home_win_prob) == home_win_prob >= 5000

\* home_win_prob > 0.5
HomeWins(home_win_prob) == home_win_prob > 5000

\* the confidence label of confidence_val
ConfidenceLabel(confidence_val) ==
    IF confidence_val >= 7000 THEN "High"
    ELSE IF confidence_val >= 5500 THEN "Medium"
    ELSE "Low"

\* value if predicted_winner == home_team else other
WinnerSide(predicted_winner, home_team, home_value, away_value) ==
    IF predicted_winner = home_team THEN home_value ELSE away_value

\* lines 435-489 and 511-564: the PredictionResponse built from the model's output
PredictionResponse(game_id, home_team, away_team, home_name, away_name, home_logo, away_logo, prob) ==
    LET home_win_prob == prob.home
        away_win_prob == prob.away
        predicted_winner == IF HomeWins(home_win_prob) THEN home_team ELSE away_team
        confidence_val == IF HomeWins(home_win_prob) THEN home_win_prob ELSE away_win_prob
    IN  [game_id |-> game_id,
         home_team |-> home_team,
         home_team_name |-> home_name,
         home_team_logo |-> home_logo,
         away_team |-> away_team,
         away_team_name |-> away_name,
         away_team_logo |-> away_logo,
         home_win_probability |-> Round3(home_win_prob),
         away_win_probability |-> Round3(away_win_prob),
         predicted_winner |-> predicted_winner,
         predicted_winner_name |-> WinnerSide(predicted_winner, home_team, home_name, away_name),
         predicted_winner_logo |-> WinnerSide(predicted_winner, home_team, home_logo, away_logo),
         confidence |-> ConfidenceLabel(confidence_val)]

\* a prediction handler's outcome: the response and, when the model ran, its output
Failed(status_code, detail) ==
    [status |-> status_code, body |-> [detail |-> detail], prob |-> None]
Predicted(prob, body) == [status |-> 200, body |-> body, prob |-> Some(prob)]

\* x or y on URLs
OrElse(x, y) == IF x # <<>> THEN x ELSE y

\* predict_game from line 425 on, for the game found
predict_game_result(bundle, game, game_id) ==
    LET home_team == game["home_team"]
        away_team == game["away_team"]
        features == get_team_features(bundle, home_team, away_team)
    IN  IF features = None
        THEN Failed(400, <<"Missing stats for teams: ", home_team, " or ", away_team>>)
        ELSE LET prob == predict_proba(bundle[1]["model"], features[1])
             IN  Predicted(prob, PredictionResponse(
                     game_id, home_team, away_team,
                     Get(game, "home_team_name", home_team),
                     Get(game, "away_team_name", away_team),
                     OrElse(Get(game, "home_team_logo", <<>>), get_team_logo_url(home_team, "L")),
                     OrElse(Get(game, "away_team_logo", <<>>), get_team_logo_url(away_team, "L")),
                     prob))

\* predict_game: whether get_key_players_for_team fetches the winner's roster
predict_game_roster(game, result) ==
    /\ result.status = 200
    /\ WinnerSide(result.body.predicted_winner, game["home_team"],
                  Get(game, "home_team_id", 0), Get(game, "away_team_id", 0)) # 0

\* lookup_game with the static list searched before the cache
lookup_game_FallbackFirst(cached, fallback, game_id) ==
    LET game == FirstWithId(fallback, game_id)
    IN  IF ~Truthy(game) THEN FirstWithId(cached, game_id) ELSE game

\* predict_game lines 409-411: cached games first, then the static ones
lookup_game(cached, fallback, game_id) ==
    LET game == FirstWithId(cached, game_id)
    IN  IF ~Truthy(game) THEN FirstWithId(fallback, game_id) ELSE game

\* predict_by_teams with the abbreviations looked up as they were sent
predict_by_teams_result_AsSent(bundle, home_team, away_team) ==
    LET features == get_team_features(bundle, home_team, away_team)
    IN  IF features = None
        THEN Failed(400, <<"Missing stats for teams: ", home_team, " or ", away_team>>)
        ELSE LET prob == predict_proba(bundle[1]["model"], features[1])
             IN  Predicted(prob, PredictionResponse(
                     0, home_team, away_team,
                     get_team_full_name(home_team), get_team_full_name(away_team),
                     get_team_logo_url(home_team, "L"), get_team_logo_url(away_team, "L"),
                     prob))

\* predict_by_teams from line 501 on
predict_by_teams_result(bundle, home_team, away_team) ==
    LET home == Upper(home_team)
        away == Upper(away_team)
        features == get_team_features(bundle, home, away)
    IN  IF features = None
        THEN Failed(400, <<"Missing stats for teams: ", home_team, " or ", away_team>>)
        ELSE LET prob == predict_proba(bundle[1]["model"], features[1])
             IN  Predicted(prob, PredictionResponse(
                     0, home, away,
                     get_team_full_name(home), get_team_full_name(away),
                     get_team_logo_url(home, "L"), get_team_logo_url(away, "L"),
                     prob))

ModelNotLoaded == Failed(500, <<"Model not loaded. Run notebook first.">>)

\* the guard left out: the handler goes on without a bundle
model_not_loaded_Never(bundle) == FALSE

\* the handlers' guard "if model_bundle is None"
model_not_loaded(bundle) == bundle = None

\* the response of a prediction endpoint, with what the handler called on the way
PredictResp(kind, args, reply, result, upstream) ==
    [kind |-> kind, args |-> args, reply |-> reply, prob |-> result.prob,
     status |-> result.status, body |-> result.body, upstream |-> upstream]

\* POST /predict/{game_id} up to its first await or, without one, to its return
predict_game_call(game_id, limit) ==
    /\ phase = "serving"
    /\ IF model_not_loaded(model_bundle)
       THEN /\ resp' = PredictResp("predict_game", [game_id |-> game_id], None,
                                   ModelNotLoaded, {})
            /\ UNCHANGED pending
       ELSE LET game == lookup_game(cached_games, fallback_games, game_id)
            IN  IF Truthy(game)
                THEN /\ LET result == predict_game_result(model_bundle, game[1], game_id)
                        IN  resp' = PredictResp("predict_game", [game_id |-> game_id], None,
                                                result,
                                                IF predict_game_roster(game[1], result)
                                                THEN {"players"} ELSE {})
                     /\ UNCHANGED pending
                ELSE /\ CanSuspend(limit)
                     /\ pending' = pending (+) SetToBag({Req("predict_game", game_id)})
                     /\ resp' = NoResp
    /\ UNCHANGED <<phase, pickle_file, games_file, model_bundle, fallback_games,
                   cached_games, ft_call, ft_ret, env>>

\* upstream answers fetch_game_by_id and the handler runs to its return
predict_game_resume ==
    \E r \in Suspended("predict_game") :
        \E reply \in Outcomes(env, GameReplies(r.game_id)) :
            LET game == fetch_game_by_id(reply)
                result == IF Truthy(game)
                          THEN predict_game_result(model_bundle, game[1], r.game_id)
                          ELSE Failed(404, <<"Game not found">>)
            IN  /\ pending' = pending (-) SetToBag({r})
                /\ cached_games' = IF Truthy(game) THEN Append(cached_games, game[1])
                                   ELSE cached_games
                /\ resp' = PredictResp("predict_game", [game_id |-> r.game_id], Some(reply),
                                       result,
                                       {"games/{id}"} \cup
                                       (IF Truthy(game) /\ predict_game_roster(game[1], result)
                                        THEN {"players"} ELSE {}))
                /\ UNCHANGED <<phase, pickle_file, games_file, model_bundle, fallback_games,
                               ft_call, ft_ret, env>>

\* the abbreviations a request path can carry
TeamInputs == {"lal", "BOS", "Den", "XYZ"}

\* GET /predict/teams/{home_team}/{away_team}
predict_by_teams(home_team, away_team) ==
    /\ phase = "serving"
    /\    LET result == IF model_not_loaded(model_bundle) THEN ModelNotLoaded
                        ELSE predict_by_teams_result(model_bundle, home_team, away_team)
              roster == /\ result.status = 200
                        /\ LET id == get_balldontlie_team_id(result.body.predicted_winner)
                           IN  id # None /\ id[1] # 0
          IN  resp' = PredictResp("predict_by_teams",
                                  [home_team |-> home_team, away_team |-> away_team],
                                  None, result,
                                  IF roster THEN {"players"} ELSE {})
    /\ UNCHANGED <<phase, pickle_file, games_file, model_bundle, fallback_games,
                   cached_games, pending, ft_call, ft_ret, env>>

(***************************************************************************)
(* GET /games/{game_id}/details                                            *)
(***************************************************************************)
\* the awaits of fetch_game_details_full after the one of the game, in order
Supplementary == <<"home_roster", "away_roster", "home_upcoming", "away_upcoming">>

\* the same game as upstream sends it for a visiting team without an id
WithoutVisitorId(game) ==
    [game EXCEPT !["visitor_team"] = [k \in DOMAIN @ \ {"id"} |-> @[k]]]

\* replies to GET /games/{id} the details handler is run against
DetailsGameReplies(game_id) ==
    GameReplies(game_id)
    \cup (IF game_id \in DOMAIN UpstreamGame
          THEN {[ok |-> TRUE, body |-> [data |-> WithoutVisitorId(UpstreamGame[game_id])]]}
          ELSE {})

\* home_team_id / away_team_id, the argument of the i-th supplementary fetch
TeamIdOf(game, i) ==
    IF Supplementary[i] \in {"home_roster", "home_upcoming"}
    THEN Get(game, "home_team_id", 0)
    ELSE Get(game, "away_team_id", 0)

\* every supplementary fetch awaited, whatever the team ids
NextAwait_Unconditional(game, at) == IF at < Len(Supplementary) THEN at + 1 ELSE 0

\* "... if home_team_id else []": the next await after the at-th, 0 if none is left
NextAwait(game, at) ==
    LET later == {i \in (at + 1)..Len(Supplementary) : TeamIdOf(game, i) # 0}
    IN  IF later = {} THEN 0 ELSE CHOOSE i \in later : \A j \in later : i <= j

SupplementaryReplies(i) ==
    IF Supplementary[i] \in {"home_roster", "away_roster"} THEN RosterReplies
    ELSE TeamGamesReplies

SupplementaryRaises(i, reply) ==
    IF Supplementary[i] \in {"home_roster", "away_roster"} THEN RosterRaises(reply)
    ELSE TeamGamesRaises(reply)

fetch_supplementary(i, reply) ==
    IF Supplementary[i] \in {"home_roster", "away_roster"} THEN fetch_team_roster(reply)
    ELSE fetch_team_upcoming_games(reply)

\* the dict fetch_game_details_full returns; got holds the lists awaited
fetch_game_details_full_result(game, got) ==
    [game |-> game,
     home_team_details |->
         [abbreviation |-> game["home_team"],
          name |-> game["home_team_name"],
          logo_url |-> game["home_team_logo"],
          logo_url_small |-> get_team_logo_url(game["home_team"], "S"),
          roster |-> Get(got, "home_roster", <<>>),
          upcoming_games |-> Get(got, "home_upcoming", <<>>)],
     away_team_details |->
         [abbreviation |-> game["away_team"],
          name |-> game["away_team_name"],
          logo_url |-> game["away_team_logo"],
          logo_url_small |-> get_team_logo_url(game["away_team"], "S"),
          roster |-> Get(got, "away_roster", <<>>),
          upcoming_games |-> Get(got, "away_upcoming", <<>>)]]

\* a details handler suspended in its at-th supplementary await (0: the game's)
DetailsReq(game_id, at, reply, game, got, issued, failed) ==
    [kind |-> "details", game_id |-> game_id, at |-> at, reply |-> reply, game |-> game,
     got |-> got, issued |-> issued, failed |-> failed]

\* the response of the details handler, with the requests it sent on the way
DetailsResp(r, reply, result, issued, failed) ==
    [kind |-> "details", game_id |-> r.game_id, reply |-> reply, status |-> result.status,
     body |-> result.body, issued |-> issued, failed |-> failed]

\* the handler runs up to the await of fetch_game_by_id
get_game_full_details_call(game_id, limit) ==
    /\ phase = "serving"
    /\ CanSuspend(limit)
    /\ pending' = pending (+) SetToBag({DetailsReq(game_id, 0, None, None, EmptyDict, {}, {})})
    /\ resp' = NoResp
    /\ UNCHANGED <<phase, pickle_file, games_file, model_bundle, fallback_games,
                   cached_games, ft_call, ft_ret, env>>

\* fetch_game_details_full from the point the at-th await returned
fetch_game_details_full_continue(r, reply, game, got, failed) ==
    LET next == NextAwait(game, r.at)
    IN  IF next = 0
        THEN /\ pending' = pending (-) SetToBag({r})
             /\ resp' = DetailsResp(r, reply, Ok(fetch_game_details_full_result(game, got)),
                                    r.issued, failed)
        ELSE /\ pending' = (pending (-) SetToBag({r})) (+)
                           SetToBag({DetailsReq(r.game_id, next, reply, Some(game), got,
                                                r.issued \cup {Supplementary[next]}, failed)})
             /\ resp' = NoResp

\* upstream answers fetch_game_by_id
get_game_full_details_game ==
    \E r \in {q \in Suspended("details") : q.at = 0} :
        \E reply \in Outcomes(env, DetailsGameReplies(r.game_id)) :
            LET game == fetch_game_by_id(reply)
            IN  /\ IF ~Truthy(game)
                   THEN /\ pending' = pending (-) SetToBag({r})
                        /\ resp' = DetailsResp(r, Some(reply),
                                               HTTPException(404, <<"Game not found">>), {}, {})
                   ELSE fetch_game_details_full_continue(r, Some(reply), game[1], r.got, r.failed)
                /\ UNCHANGED <<phase, pickle_file, games_file, model_bundle, fallback_games,
                               cached_games, ft_call, ft_ret, env>>

\* upstream answers the supplementary request the handler is waiting for
get_game_full_details_supplementary ==
    \E r \in {q \in Suspended("details") : q.at > 0} :
        \E reply \in Outcomes(env, SupplementaryReplies(r.at)) :
            LET got == (Supplementary[r.at] :> fetch_supplementary(r.at, reply)) @@ r.got
                failed == IF SupplementaryRaises(r.at, reply)
                          THEN r.failed \cup {Supplementary[r.at]} ELSE r.failed
            IN  /\ fetch_game_details_full_continue(r, r.reply, r.game[1], got, failed)
                /\ UNCHANGED <<phase, pickle_file, games_file, model_bundle, fallback_games,
                               cached_games, ft_call, ft_ret, env>>

(***************************************************************************)
(* GET /games/today, /games/past, /teams/{team_id}/roster and              *)
(* /teams/{team_id}/upcoming                                               *)
(*                                                                         *)
(* Each handler awaits one fetch function inside "try" and answers 500 in  *)
(* its "except Exception".  The fetch functions return [] from their own   *)
(* except clause and never raise, so the handlers' except is not entered.  *)
(***************************************************************************)
\* a handler suspended in the await of its fetch function
ProxyReq(kind, arg) == [kind |-> kind, arg |-> arg]

\* the response of one of these handlers, with the reply its fetch function saw
ProxyResp(r, reply, result) ==
    [kind |-> r.kind, arg |-> r.arg, reply |-> reply, status |-> result.status,
     body |-> result.body]

ProxyCall(kind, arg, limit) ==
    /\ phase = "serving"
    /\ CanSuspend(limit)
    /\ pending' = pending (+) SetToBag({ProxyReq(kind, arg)})
    /\ resp' = NoResp
    /\ UNCHANGED <<phase, pickle_file, games_file, model_bundle, fallback_games,
                   cached_games, ft_call, ft_ret, env>>

ProxyReturn(r, reply, result) ==
    /\ pending' = pending (-) SetToBag({r})
    /\ resp' = ProxyResp(r, reply, result)
    /\ UNCHANGED <<phase, pickle_file, games_file, model_bundle, fallback_games,
                   cached_games, ft_call, ft_ret, env>>

\* GET /games/today
get_today_games_call(limit) == ProxyCall("get_today_games", 0, limit)

get_today_games_resume ==
    \E r \in Suspended("get_today_games"), reply \in Outcomes(env, ListReplies) :
        LET games == fetch_upcoming_games(reply)
        IN  ProxyReturn(r, reply, Ok([count |-> Len(games), games |-> games]))

\* the values of the "days" query parameter
DaysInputs == {7}

\* GET /games/past
get_past_games_call(days, limit) == ProxyCall("get_past_games", days, limit)

get_past_games_resume ==
    \E r \in Suspended("get_past_games"), reply \in Outcomes(env, PastReplies) :
        LET games == fetch_past_games(reply)
        IN  ProxyReturn(r, reply, Ok([count |-> Len(games), days_back |-> r.arg,
                                      games |-> games]))

\* the team ids a request path can carry
TeamIdInputs == {14}

\* GET /teams/{team_id}/roster
get_team_roster_call(team_id, limit) == ProxyCall("get_team_roster", team_id, limit)

get_team_roster_resume ==
    \E r \in Suspended("get_team_roster"), reply \in Outcomes(env, RosterReplies) :
        LET roster == fetch_team_roster(reply)
        IN  ProxyReturn(r, reply, Ok([team_id |-> r.arg, count |-> Len(roster),
                                      players |-> roster]))

\* GET /teams/{team_id}/upcoming
get_team_upcoming_games_call(team_id, limit) ==
    ProxyCall("get_team_upcoming_games", team_id, limit)

get_team_upcoming_games_resume ==
    \E r \in Suspended("get_team_upcoming_games"), reply \in Outcomes(env, TeamGamesReplies) :
        LET games == fetch_team_upcoming_games(reply)
        IN  ProxyReturn(r, reply, Ok([team_id |-> r.arg, count |-> Len(games),
                                      games |-> games]))

(***************************************************************************)
(* GET /teams                                                              *)
(***************************************************************************)
\* sorted(set): the strings of S in ascending order
RECURSIVE SortedStrs(_)
SortedStrs(S) ==
    IF S = {} THEN <<>>
    ELSE LET least == CHOOSE x \in S : \A y \in S : ~StrLess(y, x)
         IN  <<least>> \o SortedStrs(S \ {least})

\* list_teams answering from upstream whenever fetch_teams returned, even []
list_teams_result_AnyList(reply, bundle) ==
    IF ~fetch_teams_raises(reply)
    THEN Ok([source |-> "balldontlie_api", count |-> Len(fetch_teams(reply)),
             teams |-> fetch_teams(reply)])
    ELSE IF bundle = None
    THEN HTTPException(500, <<"Model not loaded">>)
    ELSE LET home_teams == DOMAIN Get(bundle[1], "team_stats_home", EmptyDict)
             away_teams == DOMAIN Get(bundle[1], "team_stats_away", EmptyDict)
             all_teams == SortedStrs(home_teams \cup away_teams)
         IN  Ok([source |-> "model", count |-> Len(all_teams), teams |-> all_teams])

\* list_teams, after the await of fetch_teams returned or raised
list_teams_result(reply, bundle) ==
    IF ~fetch_teams_raises(reply) /\ fetch_teams(reply) # <<>>
    THEN Ok([source |-> "balldontlie_api", count |-> Len(fetch_teams(reply)),
             teams |-> fetch_teams(reply)])
    ELSE IF bundle = None
    THEN HTTPException(500, <<"Model not loaded">>)
    ELSE LET home_teams == DOMAIN Get(bundle[1], "team_stats_home", EmptyDict)
             away_teams == DOMAIN Get(bundle[1], "team_stats_away", EmptyDict)
             all_teams == SortedStrs(home_teams \cup away_teams)
         IN  Ok([source |-> "model", count |-> Len(all_teams), teams |-> all_teams])

list_teams_call(limit) == ProxyCall("list_teams", 0, limit)

list_teams_resume ==
    \E r \in Suspended("list_teams"), reply \in Outcomes(env, TeamsReplies) :
        ProxyReturn(r, reply, list_teams_result(reply, model_bundle))

(***************************************************************************)
(* GET /games/{game_id}/tickets                                            *)
(***************************************************************************)
\* the same game as upstream sends it without a date
WithoutDate(game) == [k \in DOMAIN game \ {"date"} |-> game[k]]

\* replies to GET /games/{id} the tickets handler is run against
TicketGameReplies(game_id) ==
    GameReplies(game_id)
    \cup (IF game_id \in DOMAIN UpstreamGame
          THEN {[ok |-> TRUE, body |-> [data |-> WithoutDate(UpstreamGame[game_id])]]}
          ELSE {})

\* a tickets handler suspended in its await of the game (at 0) or of the events (at 1)
TicketsReq(game_id, at, reply, game) ==
    [kind |-> "get_game_tickets", game_id |-> game_id, at |-> at, reply |-> reply,
     game |-> game]

\* the response of the tickets handler, with the requests it sent on the way
TicketsResp(r, reply, ticket_reply, result, upstream) ==
    [kind |-> "get_game_tickets", game_id |-> r.game_id, reply |-> reply,
     ticket_reply |-> ticket_reply, status |-> result.status, body |-> result.body,
     upstream |-> upstream]

\* the dict get_game_tickets returns
get_game_tickets_body(game_id, game, tickets) ==
    [game_id |-> game_id,
     matchup |-> <<game["away_team"], " @ ", game["home_team"]>>,
     game_date |-> game["game_date"],
     tickets |-> tickets]

\* the handler runs up to the await of fetch_game_by_id
get_game_tickets_call(game_id, limit) ==
    /\ phase = "serving"
    /\ CanSuspend(limit)
    /\ pending' = pending (+) SetToBag({TicketsReq(game_id, 0, None, None)})
    /\ resp' = NoResp
    /\ UNCHANGED <<phase, pickle_file, games_file, model_bundle, fallback_games,
                   cached_games, ft_call, ft_ret, env>>

\* upstream answers fetch_game_by_id; fetch_ticket_prices runs up to its request
get_game_tickets_game ==
    \E r \in {q \in Suspended("get_game_tickets") : q.at = 0} :
        \E reply \in Outcomes(env, TicketGameReplies(r.game_id)) :
            LET game == fetch_game_by_id(reply)
                answer(tickets) ==
                    /\ pending' = pending (-) SetToBag({r})
                    /\ resp' = TicketsResp(r, Some(reply), None,
                                           Ok(get_game_tickets_body(r.game_id, game[1], tickets)),
                                           {"games/{id}"})
            IN  /\ IF ~Truthy(game)
                   THEN /\ pending' = pending (-) SetToBag({r})
                        /\ resp' = TicketsResp(r, Some(reply), None,
                                               HTTPException(404, <<"Game not found">>),
                                               {"games/{id}"})
                   ELSE IF ClientIdMissing(env)
                   THEN answer(TicketsNotConfigured(game[1]["home_team_name"]))
                   ELSE IF TicketParamsRaise(game[1]["game_date"])
                   THEN answer(TicketsError(game[1]["home_team_name"]))
                   ELSE /\ pending' = (pending (-) SetToBag({r})) (+)
                                      SetToBag({TicketsReq(r.game_id, 1, Some(reply), game)})
                        /\ resp' = NoResp
                /\ UNCHANGED <<phase, pickle_file, games_file, model_bundle, fallback_games,
                               cached_games, ft_call, ft_ret, env>>

\* SeatGeek answers and the handler runs to its return
get_game_tickets_events ==
    \E r \in {q \in Suspended("get_game_tickets") : q.at = 1} :
        \E reply \in TicketReplies :
            LET tickets == fetch_ticket_prices_reply(r.game[1]["home_team_name"], reply)
            IN  /\ pending' = pending (-) SetToBag({r})
                /\ resp' = TicketsResp(r, r.reply, Some(reply),
                                       Ok(get_game_tickets_body(r.game_id, r.game[1], tickets)),
                                       {"games/{id}", "seatgeek/events"})
                /\ UNCHANGED <<phase, pickle_file, games_file, model_bundle, fallback_games,
                               cached_games, ft_call, ft_ret, env>>

(***************************************************************************)
(* GET /teams/{team_abbr}/logo, and get_team_logo_url called on its own    *)
(***************************************************************************)
\* the values of the "size" query parameter
Sizes == {"L", "D", "S"}

\* GET /teams/{team_abbr}/logo
get_team_logo(team_abbr, size) ==
    /\ phase = "serving"
    /\ LET logo_url == get_team_logo_url(Upper(team_abbr), size)
           result == IF logo_url = <<>>
                     THEN HTTPException(404, <<"Team not found: ", team_abbr>>)
                     ELSE Ok([team |-> Upper(team_abbr), size |-> size, logo_url |-> logo_url])
       IN  resp' = [kind |-> "get_team_logo", args |-> [team_abbr |-> team_abbr, size |-> size],
                    status |-> result.status, body |-> result.body]
    /\ UNCHANGED <<phase, pickle_file, games_file, model_bundle, fallback_games,
                   cached_games, pending, ft_call, ft_ret, env>>

InitLogo ==
    /\ phase = "serving"
    /\ pickle_file = None
    /\ games_file = None
    /\ model_bundle = None
    /\ fallback_games = <<>>
    /\ cached_games = <<>>
    /\ pending = EmptyBag
    /\ resp = NoResp
    /\ ft_call \in [team_abbr : TeamInputs, size : Sizes]
    /\ ft_ret = None
    /\ env = [BALL_API_KEY |-> TRUE, SEATGEEK_CLIENT_ID |-> FALSE]

call_get_team_logo_url ==
    /\ ft_ret = None
    /\ ft_ret' = Some(get_team_logo_url(ft_call.team_abbr, ft_call.size))
    /\ UNCHANGED <<phase, pickle_file, games_file, model_bundle, fallback_games,
                   cached_games, pending, resp, ft_call, env>>

NextLogo ==
    \/ call_get_team_logo_url
    \/ \E team_abbr \in TeamInputs, size \in Sizes : get_team_logo(team_abbr, size)

SpecLogo == InitLogo /\ [][NextLogo]_vars

(***************************************************************************)
(* get_team_features called on its own                                     *)
(***************************************************************************)
\* a column whose name contains both "_away" and "_home"
DIFF == <<"diff", "_away", "_home">>

FtFeatureCols == {<<>>, <<PTS_HOME, PACE, PTS_AWAY>>, <<DIFF, REB_AWAY, PACE, REB_HOME>>}

FtHomeStats ==
    {None,
     Some(EmptyDict),
     Some([LAL |-> (PTS_HOME :> 112) @@ (REB_HOME :> 44) @@ (PACE :> 99) @@ (DIFF :> 4)]),
     Some([LAL |-> (PTS_HOME :> 112), BOS |-> (REB_HOME :> 43) @@ (PACE :> 98)])}

FtAwayStats ==
    {None,
     Some(EmptyDict),
     Some([BOS |-> (PTS_AWAY :> 110) @@ (REB_AWAY :> 41) @@ (PACE :> 97) @@ (DIFF :> 5)]),
     Some([BOS |-> (REB_AWAY :> 41), LAL |-> (PTS_AWAY :> 108) @@ (PACE :> 96)])}

\* a bundle with feature_cols and with or without each of the team_stats keys
FtBundle(cols, home_stats, away_stats) ==
    [model |-> Pipeline, feature_cols |-> cols]
    @@ (IF home_stats = None THEN EmptyDict ELSE [team_stats_home |-> home_stats[1]])
    @@ (IF away_stats = None THEN EmptyDict ELSE [team_stats_away |-> away_stats[1]])

FtBundles == {FtBundle(c, h, a) : c \in FtFeatureCols, h \in FtHomeStats, a \in FtAwayStats}

FtTeams == {"LAL", "BOS", "XYZ"}

InitFeatures ==
    /\ phase = "serving"
    /\ pickle_file = None
    /\ games_file = None
    /\ model_bundle \in {None} \cup {Some(b) : b \in FtBundles}
    /\ fallback_games = <<>>
    /\ cached_games = <<>>
    /\ pending = EmptyBag
    /\ resp = NoResp
    /\ ft_call \in [home_team : FtTeams, away_team : FtTeams]
    /\ ft_ret = None
    /\ env = [BALL_API_KEY |-> TRUE, SEATGEEK_CLIENT_ID |-> FALSE]

call_get_team_features ==
    /\ ft_ret = None
    /\ ft_ret' = Some(get_team_features(model_bundle, ft_call.home_team, ft_call.away_team))
    /\ UNCHANGED <<phase, pickle_file, games_file, model_bundle, fallback_games,
                   cached_games, pending, resp, ft_call, env>>

NextFeatures == call_get_team_features

SpecFeatures == InitFeatures /\ [][NextFeatures]_vars

\* every handler, at most MaxSuspended of them suspended at a time
Next ==
    \/ train_model_main
    \/ Startup
    \/ get_games_call(MaxSuspended)
    \/ get_games_resume
    \/ \E game_id \in GameIds : get_game_call(game_id, MaxSuspended)
    \/ get_game_resume
    \/ \E game_id \in GameIds : predict_game_call(game_id, MaxSuspended)
    \/ predict_game_resume
    \/ \E home_team, away_team \in TeamInputs : predict_by_teams(home_team, away_team)

Spec == Init /\ [][Next]_vars

\* the handlers that read or write cached_games, up to MaxInFlight of them
\* suspended at a time
NextConcurrent ==
    \/ Startup
    \/ get_games_call(MaxInFlight)
    \/ get_games_resume
    \/ \E game_id \in GameIds : get_game_call(game_id, MaxInFlight)
    \/ get_game_resume
    \/ \E game_id \in GameIds : predict_game_call(game_id, MaxInFlight)
    \/ predict_game_resume

SpecConcurrent == Init /\ [][NextConcurrent]_vars

\* the details handler, whose awaits follow one another
NextDetails ==
    \/ Startup
    \/ \E game_id \in GameIds : get_game_full_details_call(game_id, MaxSuspended)
    \/ get_game_full_details_game
    \/ get_game_full_details_supplementary

SpecDetails == Init /\ [][NextDetails]_vars

\* the handlers that pass upstream data through, with GET /games to fill the cache
NextProxy ==
    \/ Startup
    \/ get_today_games_call(MaxSuspended)
    \/ get_today_games_resume
    \/ \E days \in DaysInputs : get_past_games_call(days, MaxSuspended)
    \/ get_past_games_resume
    \/ \E team_id \in TeamIdInputs : get_team_roster_call(team_id, MaxSuspended)
    \/ get_team_roster_resume
    \/ \E team_id \in TeamIdInputs : get_team_upcoming_games_call(team_id, MaxSuspended)
    \/ get_team_upcoming_games_resume
    \/ list_teams_call(MaxSuspended)
    \/ list_teams_resume
    \/ get_games_call(MaxSuspended)
    \/ get_games_resume
    \/ \E game_id \in GameIds : get_game_tickets_call(game_id, MaxSuspended)
    \/ get_game_tickets_game
    \/ get_game_tickets_events

SpecProxy == Init /\ [][NextProxy]_vars

(***************************************************************************)
(* Properties.  A response is judged in the step that sends it: resp' is   *)
(* the response, the unprimed variables are the state the handler's last   *)
(* segment started from.                                                   *)
(***************************************************************************)
\* the positions of the entries of games with this id
Positions(games, game_id) == {i \in 1..Len(games) : games[i]["id"] = game_id}

HasId(games, game_id) == Positions(games, game_id) # {}

\* the first entry of games with this id
FirstEntry(games, game_id) ==
    games[CHOOSE i \in Positions(games, game_id) : \A j \in Positions(games, game_id) : i <= j]

\* every field of the stored record is in the returned one, unchanged
PassedThrough(entry, returned) ==
    \A k \in DOMAIN entry : k \in DOMAIN returned /\ returned[k] = entry[k]

C3_GameUpstreamFirst ==
    [][resp'.kind = "get_game" =>
        LET id == resp'.game_id
            upstream == fetch_game_by_id(resp'.reply)
            in_cache == HasId(cached_games, id)
            in_static == HasId(fallback_games, id)
        IN  /\ upstream # None => /\ resp'.status = 200
                                  /\ resp'.body = upstream[1]
            /\ (upstream = None /\ in_cache) =>
                   /\ resp'.status = 200
                   /\ PassedThrough(FirstEntry(cached_games, id), resp'.body)
            /\ (upstream = None /\ ~in_cache /\ in_static) =>
                   /\ resp'.status = 200
                   /\ PassedThrough(FirstEntry(fallback_games, id), resp'.body)
            /\ (resp'.status = 404) <=> (upstream = None /\ ~in_cache /\ ~in_static)
            /\ resp'.status = 404 => resp'.body.detail = <<"Game not found">>
            /\ resp'.status \in {200, 404}]_vars

\* C3 witness: upstream returns the game while the cache and the static list
\* both hold an entry with the id
C3_Witness ==
    /\ resp.kind = "get_game"
    /\ resp.status = 200
    /\ fetch_game_by_id(resp.reply) = Some(resp.body)
    /\ HasId(cached_games, resp.game_id)
    /\ HasId(fallback_games, resp.game_id)
    /\ resp.body.home_team # FirstEntry(fallback_games, resp.game_id).home_team

\* the teams a prediction response speaks of are those of game
UsedGame(r, game) ==
    IF r.status = 200
    THEN /\ r.body.home_team = game["home_team"]
         /\ r.body.away_team = game["away_team"]
    ELSE /\ r.status = 400
         /\ r.body.detail = <<"Missing stats for teams: ", game["home_team"], " or ", game["away_team"]>>

\* the entry predict_game's two local lookups find: cache first, then static
LocalEntry(cached, fallback, game_id) ==
    IF HasId(cached, game_id) THEN FirstEntry(cached, game_id)
    ELSE FirstEntry(fallback, game_id)

\* C4: POST /predict/{game_id} looks the game up in cached_games first, then
\* in fallback_games, and issues the upstream fetch_game_by_id request only if
\* the id is in neither; a game obtained from upstream is appended to
\* cached_games.
C4_PredictLookupOrder ==
    [][/\ \A id \in GameIds :
            CopiesIn(Req("predict_game", id), pending') > CopiesIn(Req("predict_game", id), pending)
                => (~HasId(cached_games, id) /\ ~HasId(fallback_games, id))
       /\ (resp'.kind = "predict_game" /\ resp'.status # 500) =>
            LET id == resp'.args.game_id
            IN  IF resp'.reply = None
                THEN /\ HasId(cached_games, id) \/ HasId(fallback_games, id)
                     /\ UsedGame(resp', LocalEntry(cached_games, fallback_games, id))
                     /\ "games/{id}" \notin resp'.upstream
                     /\ cached_games' = cached_games
                ELSE LET upstream == fetch_game_by_id(resp'.reply[1])
                     IN  /\ "games/{id}" \in resp'.upstream
                         /\ upstream # None => /\ cached_games' = Append(cached_games, upstream[1])
                                               /\ UsedGame(resp', upstream[1])
                         /\ upstream = None => /\ cached_games' = cached_games
                                               /\ resp'.status = 404]_vars

\* C4 witness: a game fetched from upstream was appended behind the entries
\* the cache already held
C4_Witness ==
    /\ resp.kind = "predict_game"
    /\ resp.reply # None
    /\ resp.status = 400
    /\ Len(cached_games) >= 2
    /\ Some(cached_games[Len(cached_games)]) = fetch_game_by_id(resp.reply[1])

\* C5: without a model bundle both prediction endpoints answer 500 "Model not
\* loaded" and do nothing else: no upstream request is issued, no handler is
\* left suspended and cached_games is unchanged, whatever the game id or the
\* teams.
C5_ModelNotLoadedFirst ==
    [][model_bundle = None =>
        /\ resp'.kind \in {"predict_game", "predict_by_teams"} =>
              /\ resp'.status = 500
              /\ resp'.body.detail = <<"Model not loaded. Run notebook first.">>
              /\ resp'.reply = None
              /\ resp'.upstream = {}
              /\ cached_games' = cached_games
              /\ pending' = pending
        /\ \A id \in GameIds :
              CopiesIn(Req("predict_game", id), pending') <= CopiesIn(Req("predict_game", id), pending)]_vars

\* C5 witness: a 500 for a game the static list holds
C5_Witness ==
    /\ resp.kind = "predict_game"
    /\ resp.status = 500
    /\ model_bundle = None
    /\ HasId(fallback_games, resp.args.game_id)

\* the bundle has no averages for one of the two teams
MissingStats(bundle, home_team, away_team) ==
    \/ home_team \notin DOMAIN Get(bundle, "team_stats_home", EmptyDict)
    \/ away_team \notin DOMAIN Get(bundle, "team_stats_away", EmptyDict)

\* C6: with the model loaded, POST /predict/{game_id} answers 404 exactly when
\* the game is found nowhere (not in the cache or the static list when the
\* handler looked, and not upstream), 400 exactly when the game is found but
\* its teams have no stats, and otherwise a prediction carrying the game's id
\* and teams.  GET /predict/teams answers 400 exactly when the upper-cased
\* abbreviations have no stats.
C6_PredictStatus ==
    [][model_bundle # None =>
        /\ resp'.kind = "predict_game" =>
              LET id == resp'.args.game_id
                  found == IF resp'.reply # None THEN fetch_game_by_id(resp'.reply[1])
                           ELSE IF HasId(cached_games, id) \/ HasId(fallback_games, id)
                           THEN Some(LocalEntry(cached_games, fallback_games, id))
                           ELSE None
              IN  /\ (resp'.status = 404) <=> (found = None)
                  /\ found # None =>
                        LET missing == MissingStats(model_bundle[1], found[1]["home_team"],
                                                    found[1]["away_team"])
                        IN  /\ (resp'.status = 400) <=> missing
                            /\ ~missing => /\ resp'.status = 200
                                           /\ resp'.body.game_id = found[1]["id"]
                                           /\ resp'.body.home_team = found[1]["home_team"]
                                           /\ resp'.body.away_team = found[1]["away_team"]
        /\ resp'.kind = "predict_by_teams" =>
              LET missing == MissingStats(model_bundle[1], Upper(resp'.args.home_team),
                                          Upper(resp'.args.away_team))
              IN  /\ (resp'.status = 400) <=> missing
                  /\ ~missing => resp'.status = 200]_vars

\* C6 witness: a game found upstream whose visitors have no stats
C6_Witness ==
    /\ resp.kind = "predict_game"
    /\ resp.status = 400
    /\ resp.reply # None
    /\ model_bundle # None
    /\ fetch_game_by_id(resp.reply[1]) # None

\* C7: in every prediction the predicted winner is the home team if the
\* model's home win probability is above 0.5 and the away team otherwise (a
\* tie goes to the away team); confidence is "High" iff the winner's
\* probability is at least 0.7, "Medium" iff it is at least 0.55 and below
\* 0.7, "Low" otherwise; the winner's name and logo are those of its side.
\* The probabilities are the model's output, before the response rounds them
\* to three decimals.
C7_WinnerAndConfidence ==
    (resp.kind \in {"predict_game", "predict_by_teams"} /\ resp.status = 200) =>
        LET p == resp.prob[1]
            b == resp.body
            winner_prob == IF p.home > 5000 THEN p.home ELSE p.away
        IN  /\ p.home > 5000 => /\ b.predicted_winner = b.home_team
                                /\ b.predicted_winner_name = b.home_team_name
                                /\ b.predicted_winner_logo = b.home_team_logo
            /\ p.home <= 5000 => /\ b.predicted_winner = b.away_team
                                 /\ b.predicted_winner_name = b.away_team_name
                                 /\ b.predicted_winner_logo = b.away_team_logo
            /\ (b.confidence = "High") <=> (winner_prob >= 7000)
            /\ (b.confidence = "Medium") <=> (winner_prob >= 5500 /\ winner_prob < 7000)
            /\ (b.confidence = "Low") <=> (winner_prob < 5500)

\* C7 witness: a tie in a game prediction goes to the away team with low confidence
C7_Witness ==
    /\ resp.kind = "predict_game"
    /\ resp.status = 200
    /\ resp.prob[1].home = 5000
    /\ resp.body.predicted_winner = resp.body.away_team
    /\ resp.body.predicted_winner # resp.body.home_team
    /\ resp.body.confidence = "Low"

\* C8: get_team_features returns None iff the bundle is missing, the home
\* team has no entry in team_stats_home or the away team has none in
\* team_stats_away; otherwise it returns one value per entry of feature_cols,
\* in that order: the column's value in the chosen team's averages (the home
\* team's for a "_home" column, else the away team's for an "_away" column,
\* else the home team's), 0 if the averages lack the column.
C8_TeamFeatures ==
    ft_ret # None =>
        LET ret == ft_ret[1]
            missing == \/ model_bundle = None
                       \/ MissingStats(model_bundle[1], ft_call.home_team, ft_call.away_team)
        IN  /\ (ret = None) <=> missing
            /\ ~missing =>
                  LET cols == model_bundle[1]["feature_cols"]
                      home_avg == model_bundle[1]["team_stats_home"][ft_call.home_team]
                      away_avg == model_bundle[1]["team_stats_away"][ft_call.away_team]
                  IN  /\ Len(ret[1]) = Len(cols)
                      /\ \A i \in 1..Len(cols) :
                            LET avg == IF \E k \in 1..Len(cols[i]) : cols[i][k] = "_home" THEN home_avg
                                       ELSE IF \E k \in 1..Len(cols[i]) : cols[i][k] = "_away" THEN away_avg
                                       ELSE home_avg
                            IN  ret[1][i] = IF cols[i] \in DOMAIN avg THEN avg[cols[i]] ELSE 0

\* C8 witness: a four-column vector whose first column the home averages lack
C8_Witness ==
    /\ ft_ret # None
    /\ ft_ret[1] # None
    /\ model_bundle[1]["feature_cols"] = <<DIFF, REB_AWAY, PACE, REB_HOME>>
    /\ DIFF \notin DOMAIN model_bundle[1]["team_stats_home"][ft_call.home_team]
    /\ ft_ret[1][1] = <<0, 41, 0, 0>>

\* C9: once the server has started on the bundle train_model.save_model wrote,
\* it is serving and the bundle has every key the server reads.
C9_TrainedBundleServes ==
    (phase # "boot" /\ pickle_file = Some(save_model(Pipeline))) =>
        /\ phase = "serving"
        /\ model_bundle = pickle_file
        /\ {"model", "feature_cols", "team_stats_home", "team_stats_away"}
               \subseteq DOMAIN model_bundle[1]

\* C10: while the server is serving, the model bundle and the static fallback
\* list never change; cached_games changes only in a step of GET /games, which
\* replaces it by the non-empty list it fetched, or in a step of POST
\* /predict/{game_id}, which appends one game to it.
C10_OnlyCacheMutated ==
    [][phase = "serving" =>
        /\ phase' = "serving"
        /\ model_bundle' = model_bundle
        /\ fallback_games' = fallback_games
        /\ cached_games' # cached_games =>
              \/ /\ resp'.kind = "get_games"
                 /\ cached_games' # <<>>
                 /\ cached_games' = fetch_upcoming_games(resp'.reply)
              \/ /\ resp'.kind = "predict_game"
                 /\ Len(cached_games') = Len(cached_games) + 1
                 /\ SubSeq(cached_games', 1, Len(cached_games)) = cached_games]_vars

\* C10 witness: with a bundle and a static list loaded, a prediction appended
\* the game it fetched to the cache GET /games had filled
C10_Witness ==
    /\ phase = "serving"
    /\ model_bundle # None
    /\ fallback_games # <<>>
    /\ resp.kind = "predict_game"
    /\ resp.status = 400
    /\ resp.reply # None
    /\ cached_games = <<FormatAll(<<UpstreamGame[1]>>)[1], fetch_game_by_id(resp.reply[1])[1]>>

\* the supplementary requests fetch_game_details_full makes for game
WantedRequests(game) ==
    {Supplementary[i] : i \in {j \in 1..Len(Supplementary) : TeamIdOf(game, j) # 0}}

\* C11: fetch_game_details_full issues its supplementary requests (home
\* roster, away roster, home upcoming, away upcoming) in parallel: none is
\* issued after another has completed, so once one of them has completed all
\* of them have been issued.
C11_SupplementaryInParallel ==
    \A r \in Suspended("details") :
        (r.at > 0 /\ DOMAIN r.got # {}) => r.issued = WantedRequests(r.game[1])

\* the list the details response carries for a supplementary request
DetailsList(body, name) ==
    CASE name = "home_roster" -> body.home_team_details.roster
      [] name = "away_roster" -> body.away_team_details.roster
      [] name = "home_upcoming" -> body.home_team_details.upcoming_games
      [] name = "away_upcoming" -> body.away_team_details.upcoming_games

\* C14: GET /games/{game_id}/details answers 404 exactly when fetch_game_by_id
\* yields no game.  Otherwise it answers 200 with that game; a roster or
\* upcoming-games request that failed leaves only its own list empty, the
\* other lists carry what upstream sent, and no request is made for a side
\* whose team id is missing.
C14_DetailsPartialFailure ==
    resp.kind = "details" =>
        LET game == fetch_game_by_id(resp.reply[1])
        IN  /\ (resp.status = 404) <=> (game = None)
            /\ game # None =>
                  /\ resp.status = 200
                  /\ resp.body.game = game[1]
                  /\ \A i \in 1..Len(Supplementary) :
                        LET name == Supplementary[i]
                            list == DetailsList(resp.body, name)
                            sent == IF name \in {"home_roster", "away_roster"}
                                    THEN FormatPlayers(<<RawPlayer>>)
                                    ELSE FormatTeamGames(<<UpstreamGame[2]>>)
                        IN  IF TeamIdOf(game[1], i) = 0
                            THEN name \notin resp.issued /\ list = <<>>
                            ELSE /\ name \in resp.issued
                                 /\ list = IF name \in resp.failed THEN <<>> ELSE sent

\* C14 witness: the away roster request failed, the three other lists are there
C14_Witness ==
    /\ resp.kind = "details"
    /\ resp.status = 200
    /\ resp.failed = {"away_roster"}
    /\ resp.issued = {"home_roster", "away_roster", "home_upcoming", "away_upcoming"}
    /\ resp.body.away_team_details.roster = <<>>
    /\ resp.body.home_team_details.roster # <<>>
    /\ resp.body.away_team_details.upcoming_games # <<>>

\* C12: when the upstream fetch fails, GET /games/today, /games/past,
\* /teams/{team_id}/roster and /teams/{team_id}/upcoming answer 500 with a
\* "Failed to fetch ..." detail.
C12_FetchFailureIs500 ==
    (/\ resp.kind \in {"get_today_games", "get_past_games", "get_team_roster",
                       "get_team_upcoming_games"}
     /\ ~resp.reply.ok)
        => /\ resp.status = 500
           /\ "detail" \in DOMAIN resp.body
           /\ resp.body.detail[1] \in {"Failed to fetch today's games: ",
                                       "Failed to fetch past games: ",
                                       "Failed to fetch roster: ",
                                       "Failed to fetch upcoming games: "}

\* C13: GET /games/past lists only finished games: every game listed has
\* status "Final", and the upstream game it was made from was reported with
\* status "Final" or "final".
C13_PastGamesOnlyFinal ==
    resp.kind = "get_past_games" =>
        LET data == Get(resp.reply.body, "data", <<>>)
            games == resp.body.games
        IN  \A i \in 1..Len(games) :
                /\ games[i]["status"] = "Final"
                /\ \A j \in 1..Len(data) :
                      data[j]["id"] = games[i]["id"]
                          => Get(data[j], "status", "") \in {"Final", "final"}

\* an upstream game with every key the list formatting subscripts
Formattable(game) ==
    /\ {"id", "date", "home_team", "visitor_team"} \subseteq DOMAIN game
    /\ {"abbreviation", "full_name"} \subseteq DOMAIN game["home_team"]
    /\ {"abbreviation", "full_name"} \subseteq DOMAIN game["visitor_team"]

\* the CDN logo of a team, "" for an abbreviation the table lacks
LogoOf(abbr, size) ==
    IF abbr \in DOMAIN TEAM_NBA_IDS
    THEN <<"https://cdn.nba.com/logos/nba/", TEAM_NBA_IDS[abbr], "/primary/", size, "/logo.svg">>
    ELSE <<>>

C15_TeamsSource ==
    resp.kind = "list_teams" =>
        LET data == Get(resp.reply.body, "data", <<>>)
            fetched == /\ resp.reply.ok
                       /\ data # <<>>
                       /\ \A i \in 1..Len(data) :
                             {"abbreviation", "id", "city", "name", "full_name",
                              "conference", "division"} \subseteq DOMAIN data[i]
        IN  /\ fetched <=> (resp.status = 200 /\ resp.body.source = "balldontlie_api")
            /\ fetched => /\ resp.body.count = Len(data)
                          /\ Len(resp.body.teams) = Len(data)
            /\ (~fetched /\ model_bundle = None) =>
                  /\ resp.status = 500
                  /\ resp.body.detail = <<"Model not loaded">>
            /\ (~fetched /\ model_bundle # None) =>
                  LET keys == DOMAIN Get(model_bundle[1], "team_stats_home", EmptyDict)
                              \cup DOMAIN Get(model_bundle[1], "team_stats_away", EmptyDict)
                      teams == resp.body.teams
                  IN  /\ resp.status = 200
                      /\ resp.body.source = "model"
                      /\ resp.body.count = Len(teams)
                      /\ {teams[i] : i \in 1..Len(teams)} = keys
                      /\ \A i, j \in 1..Len(teams) : i < j => StrRank(teams[i]) < StrRank(teams[j])

\* C15 witness: upstream answered with an empty body and the teams come from
\* a bundle whose two tables have different keys
C15_Witness ==
    /\ resp.kind = "list_teams"
    /\ resp.reply.ok
    /\ resp.status = 200
    /\ resp.body.source = "model"
    /\ resp.body.teams = <<"BOS", "DEN", "LAL", "NYK">>
    /\ DOMAIN model_bundle[1]["team_stats_home"] # DOMAIN model_bundle[1]["team_stats_away"]

\* C18: GET /games/{game_id}/tickets consults only upstream for the game: it
\* answers 404 exactly when fetch_game_by_id yields nothing, whatever the
\* cache and the static list hold.  fetch_ticket_prices never raises (the
\* handler answers 200 otherwise): without SEATGEEK_CLIENT_ID it returns
\* available = false with an error and sends no request, and available = true
\* is returned only with a client id and at least one event from the ticket
\* API.
C18_TicketsUpstreamOnly ==
    resp.kind = "get_game_tickets" =>
        /\ resp.status \in {200, 404}
        /\ (resp.status = 404) <=> (fetch_game_by_id(resp.reply[1]) = None)
        /\ resp.status = 200 =>
              LET tickets == resp.body.tickets
              IN  /\ ~env.SEATGEEK_CLIENT_ID =>
                        /\ tickets.available = FALSE
                        /\ "error" \in DOMAIN tickets
                        /\ "seatgeek/events" \notin resp.upstream
                        /\ resp.ticket_reply = None
                  /\ tickets.available =>
                        /\ env.SEATGEEK_CLIENT_ID
                        /\ resp.ticket_reply # None
                        /\ resp.ticket_reply[1].ok
                        /\ Get(resp.ticket_reply[1].body, "events", <<>>) # <<>>

\* C18 witness: 404 for a game that the cache and the static list both hold
C18_Witness ==
    /\ resp.kind = "get_game_tickets"
    /\ resp.status = 404
    /\ HasId(cached_games, resp.game_id)
    /\ HasId(fallback_games, resp.game_id)

\* C16: get_team_logo_url returns a non-empty URL iff the upper-cased
\* abbreviation is a key of TEAM_NBA_IDS, and that URL holds that team's NBA
\* id and the requested size.  GET /teams/{abbr}/logo answers 404 exactly for
\* the other abbreviations and otherwise reports the upper-cased team, the
\* size and that URL.
C16_LogoLookup ==
    /\ ft_ret # None =>
          LET team == Upper(ft_call.team_abbr)
          IN  /\ (ft_ret[1] # <<>>) <=> (team \in DOMAIN TEAM_NBA_IDS)
              /\ ft_ret[1] # <<>> =>
                    ft_ret[1] = <<"https://cdn.nba.com/logos/nba/", TEAM_NBA_IDS[team],
                                  "/primary/", ft_call.size, "/logo.svg">>
    /\ resp.kind = "get_team_logo" =>
          LET team == Upper(resp.args.team_abbr)
          IN  /\ (resp.status = 404) <=> (team \notin DOMAIN TEAM_NBA_IDS)
              /\ resp.status # 404 =>
                    /\ resp.status = 200
                    /\ resp.body.team = team
                    /\ resp.body.size = resp.args.size
                    /\ resp.body.logo_url = <<"https://cdn.nba.com/logos/nba/", TEAM_NBA_IDS[team],
                                              "/primary/", resp.args.size, "/logo.svg">>

\* C16 witness: a lower-case abbreviation given to the function and a
\* mixed-case one given to the endpoint both found their team
C16_Witness ==
    /\ ft_call.team_abbr = "lal"
    /\ ft_ret # None
    /\ ft_ret[1] # <<>>
    /\ resp.kind = "get_team_logo"
    /\ resp.args.team_abbr = "Den"
    /\ resp.status = 200
    /\ resp.body.team = "DEN"

\* the fields of a game as GET /games/{game_id} returns it
GameFields ==
    {"id", "home_team", "home_team_name", "home_team_id", "home_team_city",
     "home_team_conference", "home_team_division", "home_team_logo", "home_team_logo_small",
     "away_team", "away_team_name", "away_team_id", "away_team_city",
     "away_team_conference", "away_team_division", "away_team_logo", "away_team_logo_small",
     "game_date", "game_time", "status", "period", "time_remaining", "postseason", "season",
     "home_score", "away_score", "tickets"}

\* the default of a field the stored record lacks
EnrichDefault(entry, k) ==
    CASE k \in {"home_team_id", "away_team_id", "period", "home_score", "away_score"} -> 0
      [] k \in {"home_team_logo", "home_team_logo_small", "away_team_logo",
                "away_team_logo_small"} -> <<>>
      [] k \in {"game_time", "time_remaining"} -> "None"
      [] k = "status" -> "scheduled"
      [] k = "postseason" -> FALSE
      [] k = "season" -> 2025
      [] k = "tickets" ->
            [available |-> FALSE,
             note |-> "Ticket data requires API integration",
             ticketmaster_search_url |->
                 <<"https://www.ticketmaster.com/search?q=",
                   IF "home_team_name" \in DOMAIN entry THEN entry["home_team_name"] ELSE "">>,
             seatgeek_search_url |->
                 <<"https://seatgeek.com/search?search=",
                   IF "home_team" \in DOMAIN entry THEN entry["home_team"] ELSE "">>]
      [] OTHER -> ""

\* C17: a game GET /games/{game_id} returns from the cache or the static list
\* has exactly the fields of a game fetch_game_by_id returns: every field of
\* the stored record is passed through unchanged and every field it lacks is
\* filled with its default.
C17_EnrichedFieldSet ==
    [][(resp'.kind = "get_game" /\ resp'.status = 200) =>
        LET upstream == fetch_game_by_id(resp'.reply)
        IN  /\ DOMAIN resp'.body = GameFields
            /\ upstream # None => DOMAIN upstream[1] = GameFields
            /\ upstream = None =>
                  LET entry == LocalEntry(cached_games, fallback_games, resp'.game_id)
                  IN  \A k \in GameFields :
                          resp'.body[k] = IF k \in DOMAIN entry THEN entry[k]
                                          ELSE EnrichDefault(entry, k)]_vars

\* C17 witness: the static record, which has five fields, returned with all of them
C17_Witness ==
    /\ resp.kind = "get_game"
    /\ resp.status = 200
    /\ ~resp.reply.ok
    /\ cached_games = <<>>
    /\ DOMAIN fallback_games[1] = {"id", "home_team", "away_team", "game_date", "status"}
    /\ resp.body["home_team"] = fallback_games[1]["home_team"]
    /\ resp.body["season"] = 2025
    /\ resp.body["home_team_logo"] = <<>>

\* C19: cached_games never holds two entries with the same game id, whatever
\* the interleaving of GET /games and POST /predict/{game_id} requests (every
\* upstream list has distinct ids).
C19_NoDuplicateIds ==
    \A i, j \in 1..Len(cached_games) :
        i # j => cached_games[i]["id"] # cached_games[j]["id"]

====
